---------------------------- MODULE Spec2Model ----------------------------
(***************************************************************************)
(* A model of the multi-step term evaluator of src/eval.cpp.               *)
(*                                                                         *)
(* Terms are records with a kind tag and the payload of their kind.  A     *)
(* declaration (Def) is shared and mutable, so it lives in the declaration *)
(* table `defs` and terms name it by its key; a record of a table carries  *)
(* the address of its node, because eval_union_table compares pointers.    *)
(* eval is an operator threading the mutable state (declaration table,     *)
(* output stream, termination status) through the recursion, and returning *)
(* with the result the node it was called on as that node is afterwards    *)
(* (eval_call replaces the entries of its argument sequence in place).     *)
(***************************************************************************)
EXTENDS Integers, Sequences, FiniteSets, TLC

VARIABLES
  defs,    \* declaration table: key of a Def -> its stored value (Def::t2)
  out,     \* the output stream (std::cout), a sequence of written chunks
  term,    \* the root term handed to the last eval, as it is after the call
  res,     \* what the last eval returned
  st,      \* "ok", or how the process ended: "fatal" (lang_assert /
           \* lang_unreachable) or "crash" (an invalid pointer was used)
  cnt,     \* counters of the last eval: Print evaluations, substitutions,
           \* evaluations of a Def's stored term, argument evaluations
  pre,     \* history: the root term, declaration table and output stream
           \* as they were before the last eval, and the operation's name
  n        \* number of evaluations the driver has run

vars == <<defs, out, term, res, st, cnt, pre, n>>

\* --------------------------------------------------------------- bounds

\* Integer literals of the input terms range over 0..MaxInt.
MaxInt == 2
\* The driver runs at most MaxEvals evaluations.
MaxEvals == 2

\* ---------------------------------------------------------------- terms

MkTrue == [kind |-> "true"]
MkFalse == [kind |-> "false"]
MkUnit == [kind |-> "unit"]
MkInt(z) == [kind |-> "int", value |-> z]
MkIf(c, a, b) == [kind |-> "if", cond |-> c, if_true |-> a, if_false |-> b]
MkSucc(a) == [kind |-> "succ", arg |-> a]
MkPred(a) == [kind |-> "pred", arg |-> a]
MkIszero(a) == [kind |-> "iszero", arg |-> a]
MkAnd(a, b) == [kind |-> "and", t1 |-> a, t2 |-> b]
MkOr(a, b) == [kind |-> "or", t1 |-> a, t2 |-> b]
MkNot(a) == [kind |-> "not", t1 |-> a]
MkEquals(a, b) == [kind |-> "equals", t1 |-> a, t2 |-> b]
MkLess(a, b) == [kind |-> "less", t1 |-> a, t2 |-> b]
MkAbs(v, b) == [kind |-> "abs", var |-> v, term |-> b]
MkApp(f, a) == [kind |-> "app", abs |-> f, arg |-> a]
MkFn(ps, b) == [kind |-> "fn", parms |-> ps, term |-> b]
MkCall(f, as) == [kind |-> "call", fn |-> f, args |-> as]
MkRef(d) == [kind |-> "ref", decl |-> d]
MkDef(d) == [kind |-> "def", decl |-> d]
MkPrint(e) == [kind |-> "print", expr |-> e]
MkProg(ss) == [kind |-> "prog", stmts |-> ss]
MkComma(is) == [kind |-> "comma", items |-> is]
MkProj(a) == [kind |-> "proj", t1 |-> a]
MkInit(l, v) == [name |-> l, value |-> v]
MkRecord(a, ms) == [kind |-> "record", addr |-> a, members |-> ms]
MkTable(sch, ms) == [kind |-> "table", schema |-> sch, members |-> ms]
MkUnion(a, b) == [kind |-> "union", t1 |-> a, t2 |-> b]
MkIntersect(a, b) == [kind |-> "inter", t1 |-> a, t2 |-> b]
MkExcept(a, b) == [kind |-> "except", t1 |-> a, t2 |-> b]
\* A type: an expression that is not a term (as<Term> yields nullptr).
MkType(nm) == [kind |-> "type", name |-> nm]
\* nullptr, and an indeterminate pointer (an uninitialized local, or the
\* result of a function that ends without a return statement).
Null == [kind |-> "null"]
Wild == [kind |-> "wild"]

\* as<Term>(e): e is a term (neither a type nor nullptr).
IsTerm(e) == e.kind \notin {"type", "null"}

\* The value classifier: the normal forms of the calculus.
ValueKinds == {"true", "false", "int", "unit", "abs", "fn", "table", "record"}
is_value(t) == t.kind \in ValueKinds

is_true(t) == t.kind = "true"
is_false(t) == t.kind = "false"
get_true == MkTrue
get_false == MkFalse
get_unit == MkUnit

Range(f) == {f[i] : i \in DOMAIN f}

\* ------------------------------------------------- external services

\* pretty(t): the formatting service, by what it prints for the scalar
\* values; any other shape prints as its kind.
pretty(t) ==
  CASE t.kind = "int" -> ToString(t.value)
    [] t.kind = "type" -> t.name
    [] OTHER -> t.kind

\* is_same(a, b): structural equality of values.  Records are equal when
\* their label/value bindings are, whatever their order and whichever node
\* holds them; tables when their schemas and record sets are.
RECURSIVE is_same(_, _)
is_same(a, b) ==
  IF a.kind # b.kind THEN FALSE
  ELSE IF a.kind = "record"
    THEN Range(a.members) = Range(b.members)
  ELSE IF a.kind = "table"
    THEN /\ a.schema = b.schema
         /\ \A x \in Range(a.members) : \E y \in Range(b.members) : is_same(x, y)
         /\ \A y \in Range(b.members) : \E x \in Range(a.members) : is_same(x, y)
  ELSE a = b

\* is_less(a, b): numeric < on integers.
is_less(a, b) == a.kind = "int" /\ b.kind = "int" /\ a.value < b.value

\* Subst {parms, args}: the mapping of each parameter to its argument.
MkSubst(parms, args) ==
  LET k == IF Len(parms) < Len(args) THEN Len(parms) ELSE Len(args)
  IN [p \in {parms[i] : i \in 1..k} |->
        args[CHOOSE i \in 1..k : parms[i] = p]]

\* subst_term(t, sub): t with every reference to a declaration of sub's
\* domain replaced by what sub maps it to; a new tree.
RECURSIVE subst_term(_, _)
subst_term(t, sub) ==
  LET S(x) == subst_term(x, sub)
      SS(xs) == [i \in DOMAIN xs |-> subst_term(xs[i], sub)]
  IN CASE t.kind = "ref" -> IF t.decl \in DOMAIN sub THEN sub[t.decl] ELSE t
       [] t.kind = "if" -> MkIf(S(t.cond), S(t.if_true), S(t.if_false))
       [] t.kind \in {"succ", "pred", "iszero"} -> [t EXCEPT !.arg = S(t.arg)]
       [] t.kind \in {"and", "or", "equals", "less", "union", "inter", "except"}
            -> [t EXCEPT !.t1 = S(t.t1), !.t2 = S(t.t2)]
       [] t.kind \in {"not", "proj"} -> [t EXCEPT !.t1 = S(t.t1)]
       [] t.kind \in {"abs", "fn"} -> [t EXCEPT !.term = S(t.term)]
       [] t.kind = "app" -> MkApp(S(t.abs), S(t.arg))
       [] t.kind = "call" -> MkCall(S(t.fn), SS(t.args))
       [] t.kind = "print" -> IF IsTerm(t.expr) THEN MkPrint(S(t.expr)) ELSE t
       [] t.kind = "prog" -> MkProg(SS(t.stmts))
       [] t.kind = "comma" -> MkComma(SS(t.items))
       [] OTHER -> t

\* ---------------------------------------------------- evaluation state

\* The state eval threads through its recursion.
MkState(d, o) ==
  [defs |-> d, out |-> o, st |-> "ok",
   np |-> 0, ns |-> 0, nd |-> 0, na |-> 0]

\* What a call of eval yields: the returned pointer, the node it was called
\* on as it is afterwards, and the state.
Ret(v, nd, s) == [val |-> v, node |-> nd, s |-> s]

\* lang_unreachable / a failed lang_assert: the process ends.
Fatal(nd, s) == Ret(Null, nd, [s EXCEPT !.st = "fatal"])
\* A use of an invalid pointer: the process ends.
Crash(nd, s) == Ret(Null, nd, [s EXCEPT !.st = "crash"])
\* A sub-evaluation did not return: neither does this one.
Abort(nd, r) == Ret(Null, nd, r.s)

\* A function that flows off its end without a return statement has
\* undefined behaviour: the build either faults or hands back whatever the
\* return register holds, an indeterminate pointer.
NoReturn(nd, s, ub) == IF ub.crash THEN Crash(nd, s) ELSE Ret(Wild, nd, s)

\* std::cout << x
Write(s, x) == [s EXCEPT !.out = Append(@, x)]

RECURSIVE eval(_, _, _)

\* --------------------------------------------------- scalar evaluator

eval_if(t, s, ub) ==
  LET bv == eval(t.cond, s, ub)
      t1 == [t EXCEPT !.cond = bv.node]
  IN IF bv.s.st # "ok" THEN Abort(t1, bv)
     ELSE IF is_true(bv.val)
       THEN LET r == eval(t.if_true, bv.s, ub)
            IN Ret(r.val, [t1 EXCEPT !.if_true = r.node], r.s)
     ELSE IF is_false(bv.val)
       THEN LET r == eval(t.if_false, bv.s, ub)
            IN Ret(r.val, [t1 EXCEPT !.if_false = r.node], r.s)
     ELSE Fatal(t1, bv.s)

eval_succ(t, s, ub) ==
  LET r == eval(t.arg, s, ub)
      t1 == [t EXCEPT !.arg = r.node]
  IN IF r.s.st # "ok" THEN Abort(t1, r)
     ELSE IF r.val.kind = "int" THEN Ret(MkInt(r.val.value + 1), t1, r.s)
     ELSE Fatal(t1, r.s)

\* eval_pred without the test for zero.
eval_pred_unsaturated(t, s, ub) ==
  LET r == eval(t.arg, s, ub)
      t1 == [t EXCEPT !.arg = r.node]
  IN IF r.s.st # "ok" THEN Abort(t1, r)
     ELSE IF r.val.kind = "int" THEN Ret(MkInt(r.val.value - 1), t1, r.s)
     ELSE Fatal(t1, r.s)

eval_pred(t, s, ub) ==
  LET r == eval(t.arg, s, ub)
      t1 == [t EXCEPT !.arg = r.node]
  IN IF r.s.st # "ok" THEN Abort(t1, r)
     ELSE IF r.val.kind = "int"
       THEN IF r.val.value = 0 THEN Ret(r.val, t1, r.s)
            ELSE Ret(MkInt(r.val.value - 1), t1, r.s)
     ELSE Fatal(t1, r.s)

eval_iszero(t, s, ub) ==
  LET r == eval(t.arg, s, ub)
      t1 == [t EXCEPT !.arg = r.node]
  IN IF r.s.st # "ok" THEN Abort(t1, r)
     ELSE IF r.val.kind = "int"
       THEN IF r.val.value = 0 THEN Ret(MkTrue, t1, r.s)
            ELSE Ret(MkFalse, t1, r.s)
     ELSE Fatal(t1, r.s)

\* Both operands of a binary term, left to right.
Operands(t, s, ub) ==
  LET a == eval(t.t1, s, ub)
  IN IF a.s.st # "ok"
       THEN [ok |-> FALSE, r |-> Abort([t EXCEPT !.t1 = a.node], a)]
       ELSE LET b == eval(t.t2, a.s, ub)
                t2 == [t EXCEPT !.t1 = a.node, !.t2 = b.node]
            IN IF b.s.st # "ok"
                 THEN [ok |-> FALSE, r |-> Abort(t2, b)]
                 ELSE [ok |-> TRUE, v1 |-> a.val, v2 |-> b.val,
                       node |-> t2, s |-> b.s]

eval_and(t, s, ub) ==
  LET o == Operands(t, s, ub)
  IN IF ~o.ok THEN o.r
     ELSE IF is_true(o.v1) /\ is_true(o.v2) THEN Ret(get_true, o.node, o.s)
     ELSE Ret(get_false, o.node, o.s)

eval_or(t, s, ub) ==
  LET o == Operands(t, s, ub)
  IN IF ~o.ok THEN o.r
     ELSE IF is_false(o.v1) /\ is_false(o.v2) THEN Ret(get_false, o.node, o.s)
     ELSE Ret(get_true, o.node, o.s)

eval_not(t, s, ub) ==
  LET r == eval(t.t1, s, ub)
      t1 == [t EXCEPT !.t1 = r.node]
  IN IF r.s.st # "ok" THEN Abort(t1, r)
     ELSE IF is_true(r.val) THEN Ret(get_false, t1, r.s)
     ELSE IF is_false(r.val) THEN Ret(get_true, t1, r.s)
     ELSE NoReturn(t1, r.s, ub)

eval_equals(t, s, ub) ==
  LET o == Operands(t, s, ub)
  IN IF ~o.ok THEN o.r
     ELSE IF is_same(o.v1, o.v2) THEN Ret(get_true, o.node, o.s)
     ELSE Ret(get_false, o.node, o.s)

eval_less(t, s, ub) ==
  LET o == Operands(t, s, ub)
      s1 == Write(Write(o.s, pretty(o.v1)), pretty(o.v2))
  IN IF ~o.ok THEN o.r
     ELSE IF is_less(o.v1, o.v2) THEN Ret(get_true, o.node, s1)
     ELSE Ret(get_false, o.node, s1)

\* ------------------------------------------------ functional evaluator

eval_app(t, s, ub) ==
  LET rf == eval(t.abs, s, ub)
      t1 == [t EXCEPT !.abs = rf.node]
  IN IF rf.s.st # "ok" THEN Abort(t1, rf)
     ELSE IF rf.val.kind # "abs" THEN Fatal(t1, rf.s)
     ELSE LET ra == eval(t.arg, rf.s, ub)
              t2 == [t1 EXCEPT !.arg = ra.node]
          IN IF ra.s.st # "ok" THEN Abort(t2, ra)
             ELSE LET sub == (rf.val.var :> ra.val)
                      body == subst_term(rf.val.term, sub)
                      r == eval(body, [ra.s EXCEPT !.ns = @ + 1], ub)
                  IN Ret(r.val, t2, r.s)

\* The loop of eval_call over the argument sequence: entries i.. of args
\* are each replaced by what their evaluation returns.
RECURSIVE eval_args(_, _, _, _)
eval_args(args, i, s, ub) ==
  IF i > Len(args) THEN [args |-> args, s |-> s]
  ELSE LET r == eval(args[i], s, ub)
       IN IF r.s.st # "ok"
            THEN [args |-> [args EXCEPT ![i] = r.node], s |-> r.s]
            ELSE eval_args([args EXCEPT ![i] = r.val], i + 1,
                           [r.s EXCEPT !.na = @ + 1], ub)

eval_call(t, s, ub) ==
  LET rf == eval(t.fn, s, ub)
      t1 == [t EXCEPT !.fn = rf.node]
  IN IF rf.s.st # "ok" THEN Abort(t1, rf)
     ELSE IF rf.val.kind # "fn" THEN Fatal(t1, rf.s)
     ELSE LET ra == eval_args(t.args, 1, rf.s, ub)
              t2 == [t1 EXCEPT !.args = ra.args]
          IN IF ra.s.st # "ok" THEN Abort(t2, ra)
             ELSE LET sub == MkSubst(rf.val.parms, ra.args)
                      body == subst_term(rf.val.term, sub)
                      r == eval(body, [ra.s EXCEPT !.ns = @ + 1], ub)
                  IN Ret(r.val, t2, r.s)

\* ------------------------------------------------ declaration resolver

eval_ref(t, s, ub) ==
  IF t.decl \in DOMAIN s.defs
    THEN IF IsTerm(s.defs[t.decl]) THEN Ret(s.defs[t.decl], t, s)
         ELSE Ret(Null, t, s)
    ELSE Ret(t, t, s)

eval_def(t, s, ub) ==
  IF IsTerm(s.defs[t.decl])
    THEN LET r == eval(s.defs[t.decl], [s EXCEPT !.nd = @ + 1], ub)
         IN IF r.s.st # "ok" THEN Abort(t, r)
            ELSE Ret(t, t, [r.s EXCEPT !.defs[t.decl] = r.val])
    ELSE Ret(t, t, s)

\* ------------------------------------------------ sequencing evaluator

eval_print(t, s, ub) ==
  LET r == IF IsTerm(t.expr) THEN eval(t.expr, s, ub) ELSE Ret(Null, t.expr, s)
      t1 == [t EXCEPT !.expr = r.node]
      line == IF r.val.kind # "null" THEN pretty(r.val) ELSE pretty(t.expr)
      s1 == [Write(Write(r.s, line), "\n") EXCEPT !.np = @ + 1]
  IN IF r.s.st # "ok" THEN Abort(t1, r)
     ELSE IF r.val.kind = "wild" THEN Crash(t1, r.s)
     ELSE Ret(MkUnit, t1, s1)

eval_comma(t, s, ub) == Ret(get_unit, t, s)

\* The loop of eval_prog: statements i.. in turn, tn the last result.
RECURSIVE eval_stmts(_, _, _, _, _)
eval_stmts(stmts, i, tn, s, ub) ==
  IF i > Len(stmts) THEN [tn |-> tn, stmts |-> stmts, s |-> s]
  ELSE LET r == eval(stmts[i], s, ub)
           ss == [stmts EXCEPT ![i] = r.node]
       IN IF r.s.st # "ok" THEN [tn |-> Null, stmts |-> ss, s |-> r.s]
          ELSE eval_stmts(ss, i + 1, r.val, r.s, ub)

\* eval_prog returning from inside its loop, after the first statement.
eval_prog_first(t, s, ub) ==
  IF t.stmts = <<>> THEN Ret(Wild, t, s)
  ELSE LET r == eval(t.stmts[1], s, ub)
       IN Ret(r.val, [t EXCEPT !.stmts[1] = r.node], r.s)

eval_prog(t, s, ub) ==
  LET r == eval_stmts(t.stmts, 1, Wild, s, ub)
  IN Ret(r.tn, [t EXCEPT !.stmts = r.stmts], r.s)

\* ------------------------------------------------ relational evaluator

\* Proj, Select_from_where and Join end without a return statement.
eval_proj(t, s, ub) == NoReturn(t, s, ub)

\* The inner loop of eval_intersect_table and eval_except_table: r1 once
\* for each record of m2 it is the same as.
RECURSIVE SameIn(_, _)
SameIn(r1, m2) ==
  IF m2 = <<>> THEN <<>>
  ELSE (IF is_same(r1, Head(m2)) THEN <<r1>> ELSE <<>>) \o SameIn(r1, Tail(m2))

\* What the two loops of eval_intersect_table push, in order.
RECURSIVE Matches(_, _)
Matches(m1, m2) ==
  IF m1 = <<>> THEN <<>>
  ELSE SameIn(Head(m1), m2) \o Matches(Tail(m1), m2)

\* `Table* result;` is never initialized: writing through it and returning
\* it is undefined.  The build either faults, or result happens to hold
\* the address of some table (ub.tbl) and the matches are pushed onto it.
eval_intersect_table(t1, t2, ub) ==
  IF ub.crash THEN Null
  ELSE [ub.tbl EXCEPT !.members = @ \o Matches(t1.members, t2.members)]

\* The two operands of a table operator; the second is dereferenced as a
\* table without a check.
TableOperands(t, s, ub) ==
  LET o == Operands(t, s, ub)
  IN IF ~o.ok THEN o
     ELSE IF o.v1.kind \in {"null", "wild"}
       THEN [ok |-> FALSE, r |-> Crash(o.node, o.s)]
     ELSE IF o.v1.kind # "table"
       THEN [ok |-> FALSE, r |-> NoReturn(o.node, o.s, ub)]
     ELSE IF o.v2.kind # "table"
       THEN [ok |-> FALSE, r |-> Crash(o.node, o.s)]
     ELSE o

eval_intersect(t, s, ub) ==
  LET o == TableOperands(t, s, ub)
      v == eval_intersect_table(o.v1, o.v2, ub)
  IN IF ~o.ok THEN o.r
     ELSE IF v = Null THEN Crash(o.node, o.s)
     ELSE Ret(v, o.node, o.s)

\* The records of set rs in the order of their addresses: the iteration
\* order of std::set<Term*>.
RECURSIVE ByAddress(_)
ByAddress(rs) ==
  IF rs = {} THEN <<>>
  ELSE LET r == CHOOSE x \in rs : \A y \in rs : x.addr <= y.addr
       IN <<r>> \o ByAddress(rs \ {r})

\* The set of record pointers of a sequence: one per node, not per
\* structurally equal record.
PointerSet(records) == Range(records)

eval_union_table(t1, t2) ==
  LET schema == t1.schema
      records == t1.members \o t2.members
  IN MkTable(schema, ByAddress(PointerSet(records)))

eval_union(t, s, ub) ==
  LET o == TableOperands(t, s, ub)
  IN IF ~o.ok THEN o.r
     ELSE Ret(eval_union_table(o.v1, o.v2), o.node, o.s)

\* The records of m1 that are the same as no record of m2, in order.
RECURSIVE Diff(_, _)
Diff(m1, m2) ==
  IF m1 = <<>> THEN <<>>
  ELSE (IF SameIn(Head(m1), m2) = <<>> THEN <<Head(m1)>> ELSE <<>>)
       \o Diff(Tail(m1), m2)

\* `Term_seq* diff;` is never initialized: as for eval_intersect_table,
\* with the schema copied from t1.
eval_except_table(t1, t2, ub) ==
  IF ub.crash THEN Null
  ELSE MkTable(t1.schema, ub.tbl.members \o Diff(t1.members, t2.members))

eval_except(t, s, ub) ==
  LET o == TableOperands(t, s, ub)
      v == eval_except_table(o.v1, o.v2, ub)
  IN IF ~o.ok THEN o.r
     ELSE IF v = Null THEN Crash(o.node, o.s)
     ELSE Ret(v, o.node, o.s)

\* ------------------------------------------------ top-level dispatcher

eval(t, s, ub) ==
  CASE t.kind \in {"null", "wild"} -> Crash(t, s)
    [] t.kind = "if" -> eval_if(t, s, ub)
    [] t.kind = "and" -> eval_and(t, s, ub)
    [] t.kind = "or" -> eval_or(t, s, ub)
    [] t.kind = "not" -> eval_not(t, s, ub)
    [] t.kind = "equals" -> eval_equals(t, s, ub)
    [] t.kind = "less" -> eval_less(t, s, ub)
    [] t.kind = "succ" -> eval_succ(t, s, ub)
    [] t.kind = "pred" -> eval_pred(t, s, ub)
    [] t.kind = "iszero" -> eval_iszero(t, s, ub)
    [] t.kind = "app" -> eval_app(t, s, ub)
    [] t.kind = "call" -> eval_call(t, s, ub)
    [] t.kind = "ref" -> eval_ref(t, s, ub)
    [] t.kind = "print" -> eval_print(t, s, ub)
    [] t.kind = "def" -> eval_def(t, s, ub)
    [] t.kind = "prog" -> eval_prog(t, s, ub)
    [] t.kind = "comma" -> eval_comma(t, s, ub)
    [] t.kind = "proj" -> eval_proj(t, s, ub)
    [] t.kind = "union" -> eval_union(t, s, ub)
    [] t.kind = "inter" -> eval_intersect(t, s, ub)
    [] t.kind = "except" -> eval_except(t, s, ub)
    [] OTHER -> Ret(t, t, s)

\* -------------------------------------------------------------- inputs

\* The declarations: d1, d2 and dF are definitions of terms, dT of a type;
\* x and y are parameters (declarations that are not definitions).
Nats == {MkInt(z) : z \in 0..MaxInt}
Two == MkSucc(MkSucc(MkInt(0)))
IncFn == MkFn(<<"x">>, MkSucc(MkRef("x")))
BothFn == MkFn(<<"x", "y">>, MkAnd(MkRef("x"), MkRef("y")))
IncCall == MkCall(IncFn, <<MkSucc(MkInt(0))>>)

InitDefs ==
  [d1 : {Two, MkInt(1)},
   d2 : {IncCall, MkIszero(MkInt(0))},
   dT : {MkType("Nat")}]

ScalarInputs ==
  UNION {{MkSucc(v), MkPred(v), MkIszero(v), MkPred(MkSucc(v)),
          MkIszero(MkSucc(v)), MkEquals(v, MkInt(1)),
          MkIf(MkIszero(v), MkTrue, MkIszero(MkPred(v)))} : v \in Nats}
  \cup {MkAnd(MkTrue, MkIszero(MkInt(0))), MkOr(MkFalse, MkFalse),
        MkNot(MkTrue), MkNot(MkInt(0)), MkSucc(MkTrue),
        MkIf(MkInt(0), MkTrue, MkFalse), MkProj(MkTrue), MkInt(0), MkTrue,
        MkLess(MkInt(0), MkInt(1)), MkLess(MkInt(1), MkInt(0)),
        MkPred(MkPred(MkSucc(MkInt(0))))}

DeclInputs ==
  {MkRef(d) : d \in {"d1", "d2", "dT", "x"}}
  \cup {MkDef(d) : d \in {"d1", "d2", "dT"}}

SeqInputs ==
  {MkPrint(e) : e \in {Two, MkIszero(MkInt(0)), MkType("Nat"), MkRef("dT"),
                       MkRef("d1"), MkLess(MkInt(0), MkInt(1))}}
  \cup {MkProg(<<MkPrint(Two), MkPrint(MkIszero(MkInt(0)))>>),
        MkProg(<<MkPrint(MkIszero(MkInt(0))), MkPrint(Two), MkPred(Two)>>),
        MkProg(<<MkDef("d1"), MkPrint(MkRef("d1"))>>),
        MkProg(<<MkPrint(MkRef("d2")), MkDef("d2"), MkRef("d2")>>),
        MkProg(<<MkPrint(Two), MkSucc(MkTrue), MkPrint(Two)>>),
        MkProg(<<MkPrint(Two), MkLess(MkInt(0), MkInt(1)), MkPrint(MkInt(0))>>),
        MkProg(<<>>),
        MkComma(<<MkSucc(MkInt(0)), MkPrint(Two)>>)}

FunInputs ==
  {MkApp(MkAbs("x", MkSucc(MkRef("x"))), v) : v \in Nats}
  \cup {MkCall(IncFn, <<MkSucc(v)>>) : v \in Nats}
  \cup {MkApp(MkTrue, MkInt(0)),
        MkCall(BothFn, <<MkTrue, MkIszero(MkInt(0))>>),
        MkCall(BothFn, <<MkTrue>>),
        MkCall(IncFn, <<MkInt(1), MkInt(0)>>),
        MkCall(IncFn, <<>>),
        MkCall(MkFn(<<"x">>, MkPrint(MkRef("x"))), <<Two, MkPrint(Two)>>),
        MkCall(MkInt(0), <<MkInt(1)>>),
        MkCall(MkAbs("x", MkRef("x")), <<MkInt(1)>>),
        MkCall(MkFn(<<>>, MkPrint(Two)), <<>>),
        MkCall(MkFn(<<>>, MkPrint(Two)), <<MkInt(0)>>)}

\* Three record nodes; rA and rA2 are two nodes with the same bindings.
rA == MkRecord(1, <<MkInit("k", MkInt(0))>>)
rA2 == MkRecord(2, <<MkInit("k", MkInt(0))>>)
rB == MkRecord(3, <<MkInit("k", MkInt(1))>>)

Tables ==
  {MkTable(<<"k">>, ms) :
     ms \in {<<>>, <<rA>>, <<rA, rA2>>, <<rB, rA2>>}}

RelInputs ==
  UNION {{MkUnion(a, b), MkIntersect(a, b), MkExcept(a, b)} :
           <<a, b>> \in Tables \X Tables}
  \cup {MkUnion(MkInt(0), MkTable(<<"k">>, <<rA>>)),
        MkIntersect(MkTable(<<"k">>, <<rA>>), MkInt(0))}

\* The outcomes of the undefined behaviour of one evaluation: whether the
\* build faults, and which table an uninitialized table pointer addresses.
UBOutcomes ==
  {[crash |-> TRUE, tbl |-> Null]}
  \cup {[crash |-> FALSE, tbl |-> tb] :
          tb \in {MkTable(<<>>, <<>>), MkTable(<<"k">>, <<rB>>)}}

\* ------------------------------------------------------- state machine

Init ==
  /\ defs \in InitDefs
  /\ out = <<>>
  /\ term = Null
  /\ res = Null
  /\ st = "ok"
  /\ cnt = [np |-> 0, ns |-> 0, nd |-> 0, na |-> 0]
  /\ pre = [op |-> "none", term |-> Null, defs |-> defs, out |-> <<>>]
  /\ n = 0

\* The driver calls eval(t): the whole call, with every state change it
\* makes.  alias holds the declaration whose stored tree t is (none for a
\* term of the program): what the call changes in t is changed there.
Evaluate(op, t, ub, alias) ==
  /\ st = "ok"
  /\ n < MaxEvals
  /\ LET r == eval(t, MkState(defs, out), ub)
     IN /\ defs' = [d \in DOMAIN r.s.defs |->
                     IF d \in alias THEN r.node ELSE r.s.defs[d]]
        /\ out' = r.s.out
        /\ term' = r.node
        /\ res' = r.val
        /\ st' = r.s.st
        /\ cnt' = [np |-> r.s.np, ns |-> r.s.ns, nd |-> r.s.nd, na |-> r.s.na]
  /\ pre' = [op |-> op, term |-> t, defs |-> defs, out |-> out]
  /\ n' = n + 1

EvalScalar == \E t \in ScalarInputs, ub \in UBOutcomes : Evaluate("scalar", t, ub, {})

EvalDecl == \E t \in DeclInputs, ub \in UBOutcomes : Evaluate("decl", t, ub, {})

EvalSeq == \E t \in SeqInputs, ub \in UBOutcomes : Evaluate("seq", t, ub, {})

EvalFun == \E t \in FunInputs, ub \in UBOutcomes : Evaluate("fun", t, ub, {})

EvalRel == \E t \in RelInputs, ub \in UBOutcomes : Evaluate("rel", t, ub, {})

\* The declaration whose stored tree the last result is, if it is one: a
\* result that is no value, reference or declaration is the pointer
\* eval_ref returned, the stored term itself.
Aliased ==
  {d \in DOMAIN defs :
     /\ defs[d] = res
     /\ res.kind \notin ValueKinds \cup {"ref", "def", "null", "wild", "type"}}

\* The driver calls eval on the result of the last eval.  When that result
\* is the stored term of a declaration, the call works on the stored tree,
\* and what it changes in place is changed in the declaration.
EvalResult ==
  /\ n > 0
  /\ \E ub \in UBOutcomes : Evaluate("again", res, ub, Aliased)

\* The driver runs scalar terms.
NextScalar == EvalScalar

SpecScalar == Init /\ [][NextScalar]_vars

\* The driver runs declarations, references and statement sequences, and
\* re-evaluates results.
NextDecl ==
  \/ EvalDecl
  \/ EvalSeq
  \/ EvalResult

SpecDecl == Init /\ [][NextDecl]_vars

\* The driver runs statements and programs.
NextSeq == EvalSeq

SpecSeq == Init /\ [][NextSeq]_vars

\* The driver runs applications and calls.
NextFun == EvalFun

SpecFun == Init /\ [][NextFun]_vars

\* The driver runs table operators.
NextRel == EvalRel

SpecRel == Init /\ [][NextRel]_vars

\* ---------------------------------------------------------- properties

\* The last evaluation was of term t.
Evaluated(t) == n > 0 /\ pre.term = t

\* C6: for every integer z >= 0, eval(Pred(Succ(z))) is z, eval(Pred(0)) is
\* 0, eval(Iszero(0)) is true and eval(Iszero(Succ(z))) is false; no
\* predecessor is negative.
C6_PredSuccIszero ==
  /\ \A z \in 0..MaxInt :
       /\ Evaluated(MkPred(MkSucc(MkInt(z)))) => st = "ok" /\ res = MkInt(z)
       /\ Evaluated(MkIszero(MkSucc(MkInt(z)))) => st = "ok" /\ res = MkFalse
  /\ Evaluated(MkPred(MkInt(0))) => st = "ok" /\ res = MkInt(0)
  /\ Evaluated(MkPred(MkPred(MkSucc(MkInt(0))))) => st = "ok" /\ res = MkInt(0)
  /\ Evaluated(MkIszero(MkInt(0))) => st = "ok" /\ res = MkTrue
  /\ (n > 0 /\ pre.term.kind = "pred" /\ st = "ok") => res.value >= 0

\* The predecessor of zero has been evaluated, and is zero.
C6_Witness == Evaluated(MkPred(MkInt(0))) /\ res = MkInt(0)

\* The statements of ss from the i-th on, evaluated in order from state s:
\* the result of the last one and the state after it.
RECURSIVE InOrder(_, _, _, _, _)
InOrder(ss, i, last, s, ub) ==
  IF i > Len(ss) THEN [val |-> last, s |-> s]
  ELSE LET r == eval(ss[i], s, ub)
       IN InOrder(ss, i + 1, r.val, r.s, ub)

\* The number of line ends in a sequence of written chunks.
RECURSIVE Lines(_)
Lines(o) ==
  IF o = <<>> THEN 0
  ELSE (IF Head(o) = "\n" THEN 1 ELSE 0) + Lines(Tail(o))

TwoPrints == MkProg(<<MkPrint(Two), MkPrint(MkIszero(MkInt(0)))>>)

\* C7: a Prog with a non-empty statement sequence that returns has evaluated
\* each statement once, in sequence order: its result is the result of the
\* last statement, the output stream and the declarations are as the
\* statements leave them one after the other, and one line was written per
\* Print evaluation.  Prog([Print(Succ(Succ(0))), Print(Iszero(0))]) writes 2
\* then true and returns Unit.
C7_ProgInOrder ==
  /\ (n > 0 /\ pre.term.kind = "prog" /\ pre.term.stmts # <<>> /\ st = "ok")
       => /\ \E ub \in UBOutcomes :
               LET e == InOrder(pre.term.stmts, 1, Null,
                                MkState(pre.defs, pre.out), ub)
               IN /\ e.s.st = "ok"
                  /\ res = e.val
                  /\ out = e.s.out
                  /\ defs = e.s.defs
                  /\ cnt.np = e.s.np
          /\ Lines(out) = Lines(pre.out) + cnt.np
  /\ Evaluated(TwoPrints)
       => /\ st = "ok"
          /\ res = MkUnit
          /\ out = pre.out \o <<"2", "\n", "true", "\n">>

\* The two-Print program has run and written its two lines.
C7_Witness ==
  /\ Evaluated(TwoPrints)
  /\ res = MkUnit
  /\ out = <<"2", "\n", "true", "\n">>

\* The declarations that are definitions holding a term before the last
\* evaluation.
TermDefs == {d \in DOMAIN pre.defs : IsTerm(pre.defs[d])}

\* C1: evaluating a reference to a definition that holds a term leaves the
\* definition holding the evaluated term, a value, and returns that value;
\* a later reference returns the same, evaluating nothing; whether or not
\* the definition itself was evaluated before.
C1_RefMemoizes ==
  \A d \in TermDefs :
    Evaluated(MkRef(d))
      => /\ st = "ok"
         /\ is_value(defs[d])
         /\ res = defs[d]

\* C2: eval applied to a result of eval returns that result unchanged.
C2_Idempotent ==
  (n > 0 /\ pre.op = "again" /\ st = "ok") => res = pre.term

\* C3: what eval returns is a value, or the no-term result for a reference
\* to a definition that holds a type.
C3_ReturnsValue ==
  (n > 0 /\ st = "ok")
    => \/ is_value(res)
       \/ /\ res = Null
          /\ pre.term.kind = "ref"
          /\ pre.term.decl \in DOMAIN pre.defs
          /\ pre.defs[pre.term.decl].kind = "type"

\* No two members of table tb are structurally equal.
NoDuplicates(tb) ==
  \A i, j \in DOMAIN tb.members :
    is_same(tb.members[i], tb.members[j]) => i = j

\* The members of table tb are, under structural equality, the records rs.
MembersAre(tb, rs) ==
  /\ \A x \in Range(tb.members) : \E y \in rs : is_same(x, y)
  /\ \A y \in rs : \E x \in Range(tb.members) : is_same(x, y)

\* The last evaluation was of operator k applied to two table literals.
TableOp(k) ==
  /\ n > 0
  /\ pre.term.kind = k
  /\ pre.term.t1.kind = "table"
  /\ pre.term.t2.kind = "table"

\* C4: the union of two tables of one schema is a table of the first one's
\* schema whose members are, without duplicates, the records of the two.
C4_UnionIsSetUnion ==
  (TableOp("union") /\ pre.term.t1.schema = pre.term.t2.schema)
    => /\ st = "ok"
       /\ res.kind = "table"
       /\ res.schema = pre.term.t1.schema
       /\ NoDuplicates(res)
       /\ MembersAre(res, Range(pre.term.t1.members)
                            \cup Range(pre.term.t2.members))

\* C5: the intersection of two tables is a table, built from an empty one,
\* whose members are, each once, the records found in both.
C5_IntersectIsSetIntersection ==
  TableOp("inter")
    => /\ st = "ok"
       /\ res.kind = "table"
       /\ NoDuplicates(res)
       /\ MembersAre(res, {x \in Range(pre.term.t1.members) :
                             \E y \in Range(pre.term.t2.members) : is_same(x, y)})

\* C8: a call whose target is no Fn, or whose argument count is not the
\* Fn's parameter count, ends in a fatal error before any substitution.
C8_CallRejected ==
  (n > 0 /\ pre.term.kind = "call"
     /\ (pre.term.fn.kind = "fn" =>
           Len(pre.term.args) # Len(pre.term.fn.parms)))
    => st = "fatal" /\ cnt.ns = 0

\* C9: an evaluation that returns leaves every node of its term as it was,
\* and changes the stored value of a definition only by evaluating it.
C9_OnlyDefsMutated ==
  (n > 0 /\ st = "ok")
    => /\ term = pre.term
       /\ defs # pre.defs => cnt.nd > 0

\* C10: the output stream is written by Print evaluations only: an
\* evaluation without one leaves it as it was, and each one adds a line.
C10_OnlyPrintWrites ==
  n > 0 => /\ cnt.np = 0 => out = pre.out
           /\ Lines(out) = Lines(pre.out) + cnt.np

=============================================================================
